---- MODULE Spec2Model ----
(***************************************************************************)
(* A model of TimingManager (src/timing.js): a timing table and a time     *)
(* unit fixed at construction, a registry of actions, and two playback     *)
(* calls that hand deferred, cancellable invocations to the timer          *)
(* substrate (Promise.delay(..).cancellable().then(..)).                   *)
(***************************************************************************)
EXTENDS Integers, Sequences, FiniteSets, TLC

VARIABLES
    timeUnit,    \* the constructor's timeUnit, "ms" | "s" | "m"
    timingInfo,  \* the constructor's timingInfo, a sequence of entries
    callbacks,   \* label -> registered function, or NoFn
    promises,    \* the engine's list of promises (indices into timers)
    timers,      \* every deferred invocation handed to the substrate
    invoked,     \* the callback invocations made so far, in order
    now,         \* the substrate's clock, in ms
    ncalls,      \* number of calls made on the engine
    last,        \* the latest call: its name and its outcome
    query        \* the latest frameTiming call: its argument and result

vars == <<timeUnit, timingInfo, callbacks, promises, timers, invoked, now,
          ncalls, last, query>>

----------------------------------------------------------------------------
\* Bounds of the model.
MaxOps == 3        \* deferred invocations created in one behaviour
MaxCalls == 3      \* calls made on the engine in one behaviour
MaxValue == 12     \* the values toMs is applied to

DefaultFps == 10

TableLengths == {0, 1, 2}
Units == {"ms", "s", "m"}
Labels == {"A", "B"}
Fns == {"f", "g"}
NoFn == "undefined"
\* starts, durations and delays, in the declared unit (a delay of 0 is also
\* what `t || 0` makes of an omitted delay)
StartValues == {0, 1}
DurnValues == {0, 1}
DelayValues == {0, 1}
\* fps values as fractions <<n, d>> (n/d frames per second); every one of
\* them gives an exact 1000 / fps.
FpsValues == {<<-1, 1>>, <<0, 1>>, <<2, 1>>, <<1000, 1>>, <<1, 64>>}
\* the arguments of frameTiming, in ms: the ends of the intervals in each unit
QueryTimes == {0, 1, 2, 999, 1000, 1001, 2000, 59999, 60000, 120000}

\* An entry of the timing table; id is the entry's position in the table and
\* stands for the identity of the object.
Entries == [label : Labels, start : StartValues, durn : DurnValues]
Tables ==
    UNION {{[i \in 1..n |-> [id |-> i, label |-> f[i].label,
                              start |-> f[i].start, durn |-> f[i].durn]] :
               f \in [1..n -> Entries]} : n \in TableLengths}
\* The objects a register call is given: a function for some of the labels.
ActionMaps == UNION {[S -> Fns] : S \in SUBSET Labels}

----------------------------------------------------------------------------
\* a conversion that takes minutes for seconds of 60 ms
toMsShortMinutes(t) ==
    IF timeUnit = "ms" THEN t
    ELSE IF timeUnit = "s" THEN t * 1000
    ELSE t * 60

\* toMs (timing.js 36-44)
toMs(t) ==
    IF timeUnit = "ms" THEN t
    ELSE IF timeUnit = "s" THEN t * 1000
    ELSE t * 60 * 1000

\* The calls followed in one behaviour: one more on a table of at most one
\* entry, so that a playback call after a cancel() of scheduled operations
\* is reached.
CallBound == IF Len(timingInfo) <= 1 THEN MaxCalls + 1 ELSE MaxCalls

\* a test that never finds the registry empty
NeverEmpty == FALSE

\* ensureNonEmpty's test, _.isEmpty(callbacks)
isEmpty == \A l \in Labels : callbacks[l] = NoFn

\* a test that takes every label for a registered one
AnyLabel(anim) == TRUE

\* the test `callbacks[anim.label]` of play and playFrame
HasAction(anim) == callbacks[anim.label] # NoFn

\* Math.max
Max(a, b) == IF a > b THEN a ELSE b

\* A call's name and its outcome: err is "none" when the call returns and
\* names the error when it throws.
Call(op, err) == [op |-> op, err |-> err]
NoQuery == [t |-> 0, result |-> <<>>, asked |-> FALSE]

Init ==
    /\ timeUnit \in Units
    /\ timingInfo \in Tables
    /\ callbacks = [l \in Labels |-> NoFn]
    /\ promises = <<>>
    /\ timers = <<>>
    /\ invoked = <<>>
    /\ now = 0
    /\ ncalls = 0
    /\ last = Call("none", "none")
    /\ query = NoQuery

----------------------------------------------------------------------------
\* a register that ignores the overwrite flag
BindIfFree(cur, new, overwrite) ==
    IF cur = NoFn THEN new ELSE cur

\* register (timing.js 53-58): the binding a label gets
Bind(cur, new, overwrite) ==
    IF cur = NoFn \/ overwrite THEN new ELSE cur

\* a register that replaces the registry by the object it is given
RegisterReplacing(fns, overwrite) ==
    /\ ncalls < CallBound
    /\ ncalls' = ncalls + 1
    /\ last' = Call("register", "none")
    /\ callbacks' = [l \in Labels |->
                        IF l \in DOMAIN fns THEN fns[l] ELSE NoFn]
    /\ UNCHANGED <<timeUnit, timingInfo, promises, timers, invoked, now, query>>

Register(fns, overwrite) ==
    /\ ncalls < CallBound
    /\ ncalls' = ncalls + 1
    /\ last' = Call("register", "none")
    /\ callbacks' = [l \in Labels |->
                        IF l \in DOMAIN fns
                        THEN Bind(callbacks[l], fns[l], overwrite)
                        ELSE callbacks[l]]
    /\ UNCHANGED <<timeUnit, timingInfo, promises, timers, invoked, now, query>>

----------------------------------------------------------------------------
\* Promise.delay(ms).cancellable().then(..), created at the present time: the
\* deferred invocation of the action of anim. bound is the value of
\* callbacks[anim.label] that the scheduling call tested.
Timer(anim, ms) ==
    [anim |-> anim, delay |-> ms, due |-> now + ms, state |-> "pending",
     bound |-> callbacks[anim.label], batch |-> ncalls + 1]

\* a playback that replaces the promises with its own
PushReplacing(ps, first, n) == [k \in 1..n |-> first + k]

\* promises.push(..) for each new timer, in order
Push(ps, first, n) == ps \o [k \in 1..n |-> first + k]

\* a play that gives every entry the delay argument alone
PlayDelayNoStart(t, anim) == t

\* the delay play gives Promise.delay (timing.js 77)
PlayDelay(t, anim) == t + toMs(anim.start)

\* the body of play's _.each (timing.js 75-85): the timers created
PlayTimers(t) ==
    LET matched == SelectSeq(timingInfo, HasAction)
    IN  [k \in 1..Len(matched) |-> Timer(matched[k], PlayDelay(t, matched[k]))]

\* play (timing.js 72-87)
Play(t) ==
    /\ ncalls < CallBound
    /\ ncalls' = ncalls + 1
    /\ IF isEmpty
       THEN /\ last' = Call("play", "NoActions")
            /\ UNCHANGED <<promises, timers>>
       ELSE LET new == PlayTimers(t)
            IN  /\ Len(timers) + Len(new) <= MaxOps
                /\ timers' = timers \o new
                /\ promises' = Push(promises, Len(timers), Len(new))
                /\ last' = Call("play", "none")
    /\ UNCHANGED <<timeUnit, timingInfo, callbacks, invoked, now, query>>

\* a cancel that forgets the promise without cancelling it
CancelNothing(tm) == tm

\* p.cancel(..) on one promise: a pending one is rejected and its handler
\* never runs; a settled one is left as it is
CancelOne(tm) ==
    IF tm.state = "pending" THEN [tm EXCEPT !.state = "cancelled"] ELSE tm

\* a cancel that cancels the promises and keeps the list
CancelKeeping ==
    /\ ncalls < CallBound
    /\ ncalls' = ncalls + 1
    /\ timers' = [i \in 1..Len(timers) |->
                     IF \E k \in 1..Len(promises) : promises[k] = i
                     THEN CancelOne(timers[i]) ELSE timers[i]]
    /\ last' = Call("cancel", "none")
    /\ UNCHANGED <<timeUnit, timingInfo, callbacks, promises, invoked, now,
                   query>>

\* cancel (timing.js 94-99)
Cancel ==
    /\ ncalls < CallBound
    /\ ncalls' = ncalls + 1
    /\ timers' = [i \in 1..Len(timers) |->
                     IF \E k \in 1..Len(promises) : promises[k] = i
                     THEN CancelOne(timers[i]) ELSE timers[i]]
    /\ promises' = <<>>
    /\ last' = Call("cancel", "none")
    /\ UNCHANGED <<timeUnit, timingInfo, callbacks, invoked, now, query>>

----------------------------------------------------------------------------
\* a test that takes the end of the interval in
ActiveClosed(info, t) ==
    (t >= toMs(info.start)) /\ (t <= toMs(info.start + info.durn))

\* the test of frameTiming's _.filter (timing.js 111-112)
Active(info, t) ==
    (t >= toMs(info.start)) /\ (t < toMs(info.start + info.durn))

\* a query that takes every entry of the table for an active one
frameTimingAll(t) == timingInfo

\* frameTiming (timing.js 108-114); t is in milliseconds
frameTiming(t) ==
    LET in(info) == Active(info, t)
    IN  SelectSeq(timingInfo, in)

FrameTimingCall(t) ==
    /\ query' = [t |-> t, result |-> frameTiming(t), asked |-> TRUE]
    /\ UNCHANGED <<timeUnit, timingInfo, callbacks, promises, timers, invoked,
                   now, ncalls, last>>

----------------------------------------------------------------------------
\* fps = fps || 10 (timing.js 127)
OrDefault(fps) == IF fps[1] = 0 THEN <<DefaultFps, 1>> ELSE fps

\* 1000 / fps (timing.js 130)
Increment(fps) == (1000 * fps[2]) \div fps[1]

\* the longest toMs(info.start + info.durn) of the table (timing.js 131-134)
RECURSIVE TotalDurn(_, _)
TotalDurn(k, durn) ==
    IF k > Len(timingInfo) THEN durn
    ELSE TotalDurn(k + 1, Max(durn, toMs(timingInfo[k].start
                                          + timingInfo[k].durn)))

\* the loop that fills times (timing.js 135-139)
RECURSIVE Times(_, _, _, _, _)
Times(i, t, increment, durn, times) ==
    IF (i * increment) < durn
    THEN Times(i + 1, t, increment, durn, Append(times, t + (i * increment)))
    ELSE times

\* playFrame (timing.js 142-152): the timers one frame adds to acc
PlayFrames(infos, i, acc) ==
    LET matched == SelectSeq(infos, HasAction)
    IN  acc \o [k \in 1..Len(matched) |-> Timer(matched[k], i)]

\* a frame loop that also plays the frame at the last element of times
RECURSIVE FrameLoopInclusive(_, _, _, _)
FrameLoopInclusive(i, times, increment, acc) ==
    IF times # <<>> /\ i <= times[Len(times)]
    THEN FrameLoopInclusive(i + increment, times, increment,
                            PlayFrames(frameTiming(i), i, acc))
    ELSE acc

\* the loop that plays each frame (timing.js 162-167); an empty times has no
\* last element and the loop's test is false at once
RECURSIVE FrameLoop(_, _, _, _)
FrameLoop(i, times, increment, acc) ==
    IF times # <<>> /\ i < times[Len(times)]
    THEN FrameLoop(i + increment, times, increment,
                   PlayFrames(frameTiming(i), i, acc))
    ELSE acc

\* the number of elements the loop at timing.js 137 gives times
NSamples(increment, durn) ==
    IF durn <= 0 THEN 0 ELSE (durn + increment - 1) \div increment

\* frameApply (timing.js 123-170)
FrameApply(fps, t) ==
    /\ ncalls < CallBound
    /\ ncalls' = ncalls + 1
    /\ IF isEmpty
       THEN /\ last' = Call("frameApply", "NoActions")
            /\ UNCHANGED <<promises, timers>>
       ELSE IF OrDefault(fps)[1] <= 0
       THEN /\ last' = Call("frameApply", "BadFps")
            /\ UNCHANGED <<promises, timers>>
       ELSE LET increment == Increment(OrDefault(fps))
                durn == TotalDurn(1, 0)
            IN  /\ NSamples(increment, durn) <= MaxOps + 1
                /\ LET times == Times(0, toMs(t), increment, durn, <<>>)
                       new == FrameLoop(toMs(t), times, increment, <<>>)
                   IN  /\ Len(timers) + Len(new) <= MaxOps
                       /\ timers' = timers \o new
                       /\ promises' = Push(promises, Len(timers), Len(new))
                       /\ last' = Call("frameApply", "none")
    /\ UNCHANGED <<timeUnit, timingInfo, callbacks, invoked, now, query>>

----------------------------------------------------------------------------
Pending == {i \in 1..Len(timers) : timers[i].state = "pending"}

\* a handler that calls the function captured when it was scheduled
HandlerCaptured(tm) == tm.bound

\* the function a fired handler calls: callbacks[anim.label], looked up when
\* the handler runs (timing.js 80, 147)
Handler(tm) == callbacks[tm.anim.label]

\* a substrate whose fired timer is taken out of the promises
FireRemoving(i) ==
    /\ i \in Pending
    /\ \A j \in Pending : timers[i].due <= timers[j].due
    /\ \A j \in Pending : j < i => timers[j].delay > timers[i].delay
    /\ now' = Max(now, timers[i].due)
    /\ timers' = [timers EXCEPT ![i].state = "fired"]
    /\ invoked' = Append(invoked, [op |-> i, fn |-> Handler(timers[i]),
                                    anim |-> timers[i].anim, at |-> now'])
    /\ promises' = LET keep(p) == p # i IN SelectSeq(promises, keep)
    /\ UNCHANGED <<timeUnit, timingInfo, callbacks, ncalls, last, query>>

\* a substrate whose handlers all see the entry of the last timer created
FireLastEntry(i) ==
    /\ i \in Pending
    /\ \A j \in Pending : timers[i].due <= timers[j].due
    /\ \A j \in Pending : j < i => timers[j].delay > timers[i].delay
    /\ now' = Max(now, timers[i].due)
    /\ timers' = [timers EXCEPT ![i].state = "fired"]
    /\ invoked' = Append(invoked, [op |-> i, fn |-> Handler(timers[i]),
                                    anim |-> timers[Len(timers)].anim,
                                    at |-> now'])
    /\ UNCHANGED <<timeUnit, timingInfo, callbacks, promises, ncalls, last,
                   query>>

\* The substrate fires a pending timer that is due first, and never before a
\* pending timer that was set earlier with a delay that is not longer; the
\* handler calls the action with anim.
Fire(i) ==
    /\ i \in Pending
    /\ \A j \in Pending : timers[i].due <= timers[j].due
    /\ \A j \in Pending : j < i => timers[j].delay > timers[i].delay
    /\ now' = Max(now, timers[i].due)
    /\ timers' = [timers EXCEPT ![i].state = "fired"]
    /\ invoked' = Append(invoked, [op |-> i, fn |-> Handler(timers[i]),
                                    anim |-> timers[i].anim, at |-> now'])
    /\ UNCHANGED <<timeUnit, timingInfo, callbacks, promises, ncalls, last,
                   query>>

Next ==
    \/ \E fns \in ActionMaps, overwrite \in BOOLEAN : Register(fns, overwrite)
    \/ \E t \in DelayValues : Play(t)
    \/ \E fps \in FpsValues, t \in DelayValues : FrameApply(fps, t)
    \/ Cancel
    \/ \E i \in 1..Len(timers) : Fire(i)

Spec == Init /\ [][Next]_vars

\* The substrate fires every timer that stays pending.
FairSpec == Spec /\ WF_vars(\E i \in 1..Len(timers) : Fire(i))

\* The queries: frameTiming called at any time, between register calls.
QueryNext ==
    \/ \E t \in QueryTimes : FrameTimingCall(t)
    \/ \E fns \in ActionMaps, overwrite \in BOOLEAN : Register(fns, overwrite)

QuerySpec == Init /\ [][QueryNext]_vars

----------------------------------------------------------------------------
\* Construction (timing.js 18-33).
\* the state of a manager that has not been constructed
NotBuilt == "unbuilt"
\* the timeUnit argument left out
NoUnit == "undefined"
\* timeUnit arguments: left out, the three units, and two other strings, one
\* of them falsy
UnitArgs == {NoUnit, "ms", "s", "m", "h", ""}

\* `timeUnit || "ms"`: every falsy value gives "ms"
OrMs(unit) == IF unit \in {NoUnit, ""} THEN "ms" ELSE unit

\* _.isString(timeUnit) && _.contains(["ms", "s", "m"], timeUnit)
ValidUnit(unit) == unit \in Units

\* `if (! _.isArray(timingInfo)) timingInfo = [timingInfo]`
AsArray(isArray, info) ==
    IF isArray THEN info
    ELSE <<[id |-> 1, label |-> info.label, start |-> info.start,
            durn |-> info.durn]>>

\* new TimingManager(info, unit); isArray tells whether info is an array or
\* a single entry. A constructor that throws leaves no manager.
TimingManager(isArray, info, unit) ==
    /\ timeUnit = NotBuilt
    /\ IF ValidUnit(OrMs(unit))
       THEN /\ timeUnit' = OrMs(unit)
            /\ timingInfo' = AsArray(isArray, info)
            /\ last' = Call("new", "none")
       ELSE /\ last' = Call("new", "InvalidTimeUnit")
            /\ UNCHANGED <<timeUnit, timingInfo>>
    /\ callbacks' = [l \in Labels |-> NoFn]
    /\ promises' = <<>>
    /\ UNCHANGED <<timers, invoked, now, ncalls, query>>

CtorInit ==
    /\ timeUnit = NotBuilt
    /\ timingInfo = <<>>
    /\ callbacks = [l \in Labels |-> NoFn]
    /\ promises = <<>>
    /\ timers = <<>>
    /\ invoked = <<>>
    /\ now = 0
    /\ ncalls = 0
    /\ last = Call("none", "none")
    /\ query = NoQuery

\* a manager has been constructed
Built == timeUnit \in Units

\* Construction, then the calls on the constructed manager.
CtorNext ==
    \/ \E tbl \in Tables, unit \in UnitArgs : TimingManager(TRUE, tbl, unit)
    \/ \E e \in Entries, unit \in UnitArgs : TimingManager(FALSE, e, unit)
    \/ Built /\ \E fns \in ActionMaps, overwrite \in BOOLEAN :
                    Register(fns, overwrite)
    \/ Built /\ \E t \in DelayValues : Play(t)
    \/ Built /\ \E fps \in FpsValues, t \in DelayValues : FrameApply(fps, t)
    \/ Built /\ Cancel
    \/ Built /\ \E i \in 1..Len(timers) : Fire(i)

CtorSpec == CtorInit /\ [][CtorNext]_vars

\* The conversion alone: toMs applied to two values and to their sum, under
\* the unit of the manager. query records the values and the three results.
ToMsCall(v, w) ==
    /\ query' = [t |-> <<v, w>>,
                 result |-> <<toMs(v), toMs(w), toMs(v + w)>>,
                 asked |-> TRUE]
    /\ UNCHANGED <<timeUnit, timingInfo, callbacks, promises, timers, invoked,
                   now, ncalls, last>>

ConvNext == \E v, w \in 0..MaxValue : ToMsCall(v, w)

ConvSpec == Init /\ [][ConvNext]_vars

\* Steps of the calls, told from the outcome they leave.
CallStep(op) == ncalls' = ncalls + 1 /\ last'.op = op
NewTimers == (Len(timers) + 1)..Len(timers')
NewInvoked == (Len(invoked) + 1)..Len(invoked')
Registered(l) == callbacks[l] # NoFn
\* the multiplier of the declared unit
Mult == CASE timeUnit = "ms" -> 1 [] timeUnit = "s" -> 1000
          [] timeUnit = "m" -> 60000

\* C1: cancel() cancels every operation of the outstanding set that has not
\* fired; a cancelled operation stays cancelled and its callback never runs
\* (only pending operations are ever invoked), so a cancel() made before any
\* timer fires leaves the invocations as they were: none.
C1_CancelStopsPending ==
    [][ /\ \A i \in 1..Len(timers) :
              timers[i].state = "cancelled" => timers'[i].state = "cancelled"
        /\ \A k \in NewInvoked : timers[invoked'[k].op].state = "pending"
        /\ CallStep("cancel") =>
              /\ \A k \in 1..Len(promises) :
                    timers[promises[k]].state = "pending"
                        => timers'[promises[k]].state = "cancelled"
              /\ \A i \in 1..Len(timers') : timers'[i].state # "pending"
              /\ invoked' = invoked ]_vars

\* C1 witness: cancel() right after a play() that scheduled something, before
\* any timer fired.
C1_Witness ==
    /\ last.op = "cancel"
    /\ timers # <<>>
    /\ \A i \in 1..Len(timers) : timers[i].state = "cancelled"
    /\ invoked = <<>>

\* C2 as claimed: every invocation calls the function that was bound to the
\* label when the operation was scheduled.
C2_CapturedAtScheduling ==
    \A k \in 1..Len(invoked) : invoked[k].fn = timers[invoked[k].op].bound

\* C2 as amended: every invocation calls the function bound to the label of
\* its entry at the moment the operation fires (a function is bound then).
C2_ResolvedAtFiring ==
    [][ \A k \in NewInvoked :
            /\ invoked'[k].anim = timers[invoked'[k].op].anim
            /\ invoked'[k].fn = callbacks[invoked'[k].anim.label]
            /\ invoked'[k].fn \in Fns ]_vars

\* C2 witness: an operation fired after its label was rebound while it was
\* pending.
C2_Witness ==
    \E k \in 1..Len(invoked) :
        /\ timers[invoked[k].op].state = "fired"
        /\ invoked[k].fn # timers[invoked[k].op].bound

\* C3 as claimed: a successful play(t) schedules every operation at
\* toMs(t) + toMs(entry.start) milliseconds.
C3_PlayDelayInUnit ==
    [][ \A t \in DelayValues :
            Play(t) /\ last'.err = "none" =>
                \A i \in NewTimers :
                    timers'[i].delay
                        = (Mult * t) + (Mult * timers'[i].anim.start) ]_vars

\* C4 as claimed: on a table of one registered entry starting at 0 whose
\* duration D (in ms) is a multiple of increment = 1000 / fps, a successful
\* frameApply(fps) schedules D / increment operations, at 0, increment, ...,
\* D - increment.
C4_OncePerFrame ==
    [][ \A fps \in FpsValues :
          LET increment == (1000 * fps[2]) \div fps[1]
              D == Mult * timingInfo[1].durn
          IN  ( /\ fps[1] > 0
                /\ Len(timingInfo) = 1
                /\ timingInfo[1].start = 0
                /\ Registered(timingInfo[1].label)
                /\ D % increment = 0
                /\ FrameApply(fps, 0)
                /\ last'.err = "none" )
              => /\ Len(timers') - Len(timers) = D \div increment
                 /\ \A k \in 1..(D \div increment) :
                        timers'[Len(timers) + k].delay = (k - 1) * increment
        ]_vars

\* C5 as claimed: with a non-empty registry, frameApply(fps, t) with fps <= 0
\* throws and leaves the promises, the registry and the table as they were.
C5_NonPositiveFpsFails ==
    [][ \A fps \in FpsValues, t \in DelayValues :
          ( /\ fps[1] <= 0
            /\ \E l \in Labels : Registered(l)
            /\ FrameApply(fps, t) )
          => /\ last'.err # "none"
             /\ promises' = promises
             /\ timers' = timers
             /\ callbacks' = callbacks
             /\ timingInfo' = timingInfo ]_vars

\* C6: with an empty registry play and frameApply throw and schedule
\* nothing; once a label is bound neither throws for that reason.
C6_EmptyRegistryFails ==
    [][ CallStep("play") \/ CallStep("frameApply") =>
          IF \A l \in Labels : callbacks[l] = NoFn
          THEN /\ last'.err = "NoActions"
               /\ promises' = promises
               /\ timers' = timers
          ELSE last'.err # "NoActions" ]_vars

\* C6 witness: play() failed on a registry that an earlier call left empty,
\* and nothing was scheduled.
C6_Witness ==
    /\ last.op = "play" /\ last.err = "NoActions"
    /\ ncalls >= 2
    /\ \A l \in Labels : callbacks[l] = NoFn
    /\ timers = <<>> /\ promises = <<>>
    /\ timingInfo # <<>>

\* C7: a successful play() appends one operation for each entry of the table
\* whose label is registered, in table order, and none for the others; the
\* promises grow by the number of matched entries.
C7_OnePerMatchedEntry ==
    [][ CallStep("play") /\ last'.err = "none" =>
          LET matched == {e \in 1..Len(timingInfo) :
                              callbacks[timingInfo[e].label] # NoFn}
          IN  /\ Len(timers') - Len(timers) = Cardinality(matched)
              /\ Len(promises') - Len(promises) = Cardinality(matched)
              /\ \A i \in 1..Len(timers) : timers'[i] = timers[i]
              /\ \A k \in 1..Len(promises) : promises'[k] = promises[k]
              /\ \A k \in 1..Cardinality(matched) :
                    promises'[Len(promises) + k] = Len(timers) + k
              /\ \A e \in 1..Len(timingInfo) :
                    Cardinality({i \in NewTimers : timers'[i].anim.id = e})
                        = IF e \in matched THEN 1 ELSE 0
              /\ \A i \in NewTimers :
                    /\ timers'[i].anim = timingInfo[timers'[i].anim.id]
                    /\ timers'[i].state = "pending" ]_vars

\* C7 witness: a play() on a table whose first label is not registered and
\* whose second is: one operation, for the second entry.
C7_Witness ==
    /\ last.op = "play" /\ last.err = "none"
    /\ Len(timingInfo) = 2
    /\ ~Registered(timingInfo[1].label)
    /\ Registered(timingInfo[2].label)
    /\ Len(timers) = 1 /\ timers[1].anim = timingInfo[2]
    /\ promises = <<1>>

\* C8: register(fns, overwrite) binds a label of fns to its function exactly
\* when the label has no function or overwrite is true; every other binding
\* is unchanged.
C8_RegisterPolicy ==
    [][ \A fns \in ActionMaps, overwrite \in BOOLEAN :
          Register(fns, overwrite) =>
            \A l \in Labels :
                callbacks'[l] =
                    IF l \in DOMAIN fns /\ (callbacks[l] = NoFn \/ overwrite)
                    THEN fns[l] ELSE callbacks[l] ]_vars

\* C8 witness: a register call that rebound A from f to g (an operation
\* scheduled under f is still pending), leaving B unbound.
C8_Witness ==
    /\ last.op = "register"
    /\ callbacks["A"] = "g" /\ callbacks["B"] = NoFn
    /\ \E i \in 1..Len(timers) :
          /\ timers[i].anim.label = "A"
          /\ timers[i].bound = "f"
          /\ timers[i].state = "pending"

\* C9: frameTiming(t), t in milliseconds, returns exactly the entries with
\* toMs(start) <= t < toMs(start + durn), in table order, whatever the
\* registry holds: an entry is in at toMs(start), out at toMs(start + durn),
\* and an entry of duration 0 is never returned.
C9_FrameTimingHalfOpen ==
    query.asked =>
        LET t == query.t
            res == query.result
            in(e) == /\ Mult * timingInfo[e].start <= t
                     /\ t < Mult * (timingInfo[e].start + timingInfo[e].durn)
        IN  /\ \A e \in 1..Len(timingInfo) :
                  (\E k \in 1..Len(res) : res[k] = timingInfo[e]) <=> in(e)
            /\ \A k \in 1..Len(res) :
                  /\ res[k].id \in 1..Len(timingInfo)
                  /\ res[k] = timingInfo[res[k].id]
                  /\ res[k].durn > 0
            /\ \A j, k \in 1..Len(res) : j < k => res[j].id < res[k].id

\* C9 witness: a query at the end of one entry and the start of the next,
\* which returns the second alone, with a label registered.
C9_Witness ==
    /\ query.asked
    /\ Len(timingInfo) = 2
    /\ timingInfo[1].durn > 0
    /\ query.t = Mult * (timingInfo[1].start + timingInfo[1].durn)
    /\ query.t = Mult * timingInfo[2].start
    /\ query.result = <<timingInfo[2]>>
    /\ \E l \in Labels : Registered(l)

\* C10: a play or frameApply call leaves every earlier operation as it was
\* and keeps the earlier promises in front of the ones it adds; an operation
\* stops being pending only by firing (its callback is invoked then) or by a
\* cancel() call, and, the substrate firing the timers that stay pending,
\* every pending operation eventually fires or is cancelled: with no cancel
\* every operation of every batch runs its callback, exactly once.
C10_PlaybackAppends ==
    /\ [][ /\ CallStep("play") \/ CallStep("frameApply") =>
               /\ Len(promises') >= Len(promises)
               /\ \A k \in 1..Len(promises) : promises'[k] = promises[k]
               /\ Len(timers') >= Len(timers)
               /\ \A i \in 1..Len(timers) : timers'[i] = timers[i]
           /\ \A i \in 1..Len(timers) :
                   timers[i].state = "pending" /\ timers'[i].state # "pending"
                       => \/ CallStep("cancel")
                          \/ /\ timers'[i].state = "fired"
                             /\ Len(invoked') = Len(invoked) + 1
                             /\ invoked'[Len(invoked')].op = i ]_vars
    /\ []((\A i \in 1..Len(timers) : timers[i].state = "fired")
              => \A i \in 1..Len(timers) :
                    Cardinality({k \in 1..Len(invoked) : invoked[k].op = i}) = 1)
    /\ \A i \in 1..MaxOps :
          (i <= Len(timers) /\ timers[i].state = "pending")
              ~> (i <= Len(timers) /\ timers[i].state \in {"fired", "cancelled"})

\* C10 witness: two play() calls with no cancel in between have invoked the
\* callback of the one entry twice.
C10_Witness ==
    /\ Len(timingInfo) = 1
    /\ Len(timers) = 2 /\ Len(invoked) = 2 /\ promises = <<1, 2>>
    /\ timers[1].batch < timers[2].batch
    /\ timers[2].due > timers[1].due
    /\ \A i \in 1..2 : timers[i].state = "fired"
    /\ \A k \in 1..2 : invoked[k].anim = timingInfo[1]

\* C11: cancel() throws nothing and leaves the promises empty; on empty
\* promises it changes nothing at all (so a second cancel() adds nothing to
\* the first); a playback call made on empty promises leaves in them only
\* the operations it scheduled itself, and no cancelled operation is ever
\* in the promises.
C11_CancelEmpties ==
    /\ [][ /\ CallStep("cancel") =>
               /\ last'.err = "none"
               /\ promises' = <<>>
               /\ (promises = <<>> =>
                     /\ timers' = timers
                     /\ callbacks' = callbacks
                     /\ invoked' = invoked
                     /\ now' = now
                     /\ timingInfo' = timingInfo
                     /\ timeUnit' = timeUnit)
           /\ ((CallStep("play") \/ CallStep("frameApply")) /\ promises = <<>>) =>
               (/\ Len(promises') = Len(timers') - Len(timers)
                /\ \A k \in 1..Len(promises') : promises'[k] \in NewTimers)
         ]_vars
    /\ [](\A k \in 1..Len(promises) :
              /\ promises[k] \in 1..Len(timers)
              /\ timers[promises[k]].state # "cancelled")

\* C11 witness: a playback call after a cancel() of a scheduled operation:
\* the promises hold the new operation alone.
C11_Witness ==
    /\ last.op \in {"play", "frameApply"} /\ last.err = "none"
    /\ Len(timers) = 2
    /\ timers[1].state = "cancelled"
    /\ timers[2].state = "pending"
    /\ promises = <<2>>

\* C12 as claimed: for fps > 0, a successful frameApply(fps, d) schedules the
\* entries frameApply(fps, 0) schedules from the same state, as many times,
\* each operation toMs(d) milliseconds later.
C12_DelayShiftsAnimation ==
    [][ \A fps \in FpsValues, d \in DelayValues :
          ( /\ fps[1] > 0
            /\ FrameApply(fps, d)
            /\ last'.err = "none" )
          => LET increment == (1000 * fps[2]) \div fps[1]
                 undelayed == FrameLoop(0, Times(0, 0, increment,
                                                 TotalDurn(1, 0), <<>>),
                                        increment, <<>>)
             IN  /\ Len(timers') - Len(timers) = Len(undelayed)
                 /\ \A k \in 1..Len(undelayed) :
                       /\ timers'[Len(timers) + k].anim = undelayed[k].anim
                       /\ timers'[Len(timers) + k].delay
                            = undelayed[k].delay + (Mult * d) ]_vars

\* operation i of timers has fired
Fired(i) == \E k \in 1..Len(invoked) : invoked[k].op = i

\* C13: a successful play() gives an entry that starts earlier (in
\* milliseconds) a strictly shorter delay, and of two operations of one call
\* with different delays, neither cancelled, the one with the longer delay
\* never fires unless the one with the shorter delay has fired before it.
C13_FiresInDelayOrder ==
    /\ [][ \A t \in DelayValues :
             (Play(t) /\ last'.err = "none") =>
                \A i, j \in NewTimers :
                    (Mult * timers'[i].anim.start)
                      < (Mult * timers'[j].anim.start)
                    => timers'[i].delay < timers'[j].delay ]_vars
    /\ [](\A i, j \in 1..Len(timers) :
            ( /\ timers[i].batch = timers[j].batch
              /\ timers[i].delay < timers[j].delay
              /\ timers[i].state # "cancelled"
              /\ Fired(j) )
            => \E ki, kj \in 1..Len(invoked) :
                  /\ ki < kj
                  /\ invoked[ki].op = i
                  /\ invoked[kj].op = j)

\* C13 witness: one play() scheduled the two entries of a table, the later
\* entry first in the table, and both have fired.
C13_Witness ==
    /\ last.op = "play" /\ last.err = "none"
    /\ Len(timers) = 2
    /\ timers[1].batch = timers[2].batch
    /\ timers[1].anim.start > timers[2].anim.start
    /\ Len(invoked) = 2
    /\ invoked[1].op = 2
    /\ invoked[2].op = 1

\* C14 as claimed: construction succeeds exactly when the unit is left out or
\* is one of ms, s, m, and then the manager's unit is that unit (ms when left
\* out); every other unit value is an error; a single entry gives the manager
\* that the one-element array of that entry gives.
C14_UnitValidated ==
    [][ /\ \A unit \in UnitArgs, tbl \in Tables :
              TimingManager(TRUE, tbl, unit) =>
                /\ (last'.err = "none") <=> (unit \in {NoUnit, "ms", "s", "m"})
                /\ (last'.err = "none") =>
                      /\ timeUnit' = (IF unit = NoUnit THEN "ms" ELSE unit)
                      /\ timingInfo' = tbl
        /\ \A unit \in UnitArgs, e \in Entries :
              TimingManager(FALSE, e, unit) =>
                /\ (last'.err = "none") <=> (unit \in {NoUnit, "ms", "s", "m"})
                /\ (last'.err = "none") =>
                      /\ timeUnit' = (IF unit = NoUnit THEN "ms" ELSE unit)
                      /\ Len(timingInfo') = 1
                      /\ timingInfo'[1].label = e.label
                      /\ timingInfo'[1].start = e.start
                      /\ timingInfo'[1].durn = e.durn ]_vars

\* C15: toMs(v) is v under ms, 1000 * v under s and 60000 * v under m;
\* toMs(0) = 0; v <= w gives toMs(v) <= toMs(w); toMs(v + w) is
\* toMs(v) + toMs(w).
C15_ToMsLinear ==
    query.asked =>
        LET v == query.t[1]
            w == query.t[2]
            r == query.result
        IN  /\ timeUnit = "ms" => r[1] = v
            /\ timeUnit = "s" => r[1] = 1000 * v
            /\ timeUnit = "m" => r[1] = 60000 * v
            /\ v = 0 => r[1] = 0
            /\ v <= w => r[1] <= r[2]
            /\ v < w => r[1] < r[2]
            /\ r[3] = r[1] + r[2]

\* C15 witness: under unit m, toMs of 1, of 2 and of their sum.
C15_Witness ==
    /\ query.asked
    /\ timeUnit = "m"
    /\ query.t = <<1, 2>>
    /\ query.result = <<60000, 120000, 180000>>

\* The sample sequence of frameApply(fps, d), spelled out: the step in ms,
\* the table's total duration, the number of samples and the last sample.
SampleStep(fps) ==
    IF fps[1] = 0 THEN 1000 \div 10 ELSE (1000 * fps[2]) \div fps[1]
TableEnd ==
    LET ends == {Mult * (timingInfo[k].start + timingInfo[k].durn) :
                    k \in 1..Len(timingInfo)}
    IN  IF ends = {} THEN 0 ELSE CHOOSE e \in ends : \A x \in ends : x <= e
SampleCount(fps) ==
    Cardinality({i \in 0..(MaxOps + 2) : (i * SampleStep(fps)) < TableEnd})
LastSample(fps, d) == (Mult * d) + ((SampleCount(fps) - 1) * SampleStep(fps))
\* the pairs (entry, t) of the claim: t a sample instant before the last one,
\* the entry registered and active at t
FramePairs(fps, d) ==
    LET n == SampleCount(fps)
        step == SampleStep(fps)
        lastSample == LastSample(fps, d)
    IN  {<<e, t>> \in (1..Len(timingInfo))
                        \X {(Mult * d) + (k * step) : k \in 0..(n - 1)} :
            /\ t < lastSample
            /\ Registered(timingInfo[e].label)
            /\ (Mult * timingInfo[e].start) <= t
            /\ t < (Mult * (timingInfo[e].start + timingInfo[e].durn))}

C18_OnlyUnfired ==
    \A k \in 1..Len(promises) : timers[promises[k]].state = "pending"

\* C18 amended: the promises hold, once each, operations that were scheduled
\* and not cancelled, fired or not, and among them every operation that has
\* not fired; a firing leaves the promises as they are, and only cancel()
\* takes operations out of them.
C18_HeldUntilCancel ==
    /\ [](/\ \A k \in 1..Len(promises) :
                /\ promises[k] \in 1..Len(timers)
                /\ timers[promises[k]].state \in {"pending", "fired"}
                /\ \A m \in 1..Len(promises) :
                      promises[m] = promises[k] => m = k
          /\ \A i \in 1..Len(timers) :
                timers[i].state = "pending"
                    => \E k \in 1..Len(promises) : promises[k] = i)
    /\ [][ /\ invoked' # invoked => promises' = promises
           /\ (\E k \in 1..Len(promises) :
                  \A m \in 1..Len(promises') : promises'[m] # promises[k])
              => (CallStep("cancel") /\ promises' = <<>>) ]_vars

\* C18 witness: an operation that has fired is still among the promises,
\* next to one that has not.
C18_Witness ==
    /\ Len(promises) = 2
    /\ timers[promises[1]].state = "fired"
    /\ timers[promises[2]].state = "pending"
    /\ Len(invoked) = 1

\* C19: a label that has a function keeps having one in every step, so the
\* label of every operation that has not fired has a function, and every
\* firing calls a function.
C19_RegistryNeverShrinks ==
    /\ [][ /\ \A l \in Labels : callbacks[l] \in Fns => callbacks'[l] \in Fns
           /\ \A k \in NewInvoked :
                 callbacks[timers[invoked'[k].op].anim.label] \in Fns ]_vars
    /\ [](\A i \in 1..Len(timers) :
             timers[i].state = "pending"
                 => callbacks[timers[i].anim.label] \in Fns)

\* C19 witness: an operation scheduled by the second call fired after a third
\* call, a register, and was pending during it.
C19_Witness ==
    /\ ncalls = 3
    /\ last.op = "register"
    /\ Len(timers) >= 1
    /\ timers[1].batch = 2
    /\ timers[1].state = "fired"
    /\ Len(invoked) >= 1

\* C20: an operation is invoked at most once; its entry, delay and deadline
\* never change after it is created; a firing passes the callback the entry
\* of the operation that fires, at that operation's deadline; and the entry
\* and delay an operation is created with belong together: play gives each
\* operation its delay argument plus the start of its own entry (in ms), and
\* frameApply gives each operation a delay at which its own entry is active.
C20_OwnEntryOnce ==
    /\ [](\A i \in 1..Len(timers) :
             Cardinality({k \in 1..Len(invoked) : invoked[k].op = i}) <= 1)
    /\ [][ /\ \A i \in 1..Len(timers) :
                 /\ timers'[i].anim = timers[i].anim
                 /\ timers'[i].delay = timers[i].delay
                 /\ timers'[i].due = timers[i].due
           /\ \A k \in NewInvoked :
                 /\ invoked'[k].op \in 1..Len(timers)
                 /\ timers[invoked'[k].op].state = "pending"
                 /\ invoked'[k].anim = timers[invoked'[k].op].anim
                 /\ invoked'[k].at = timers[invoked'[k].op].due
           /\ \A i \in NewTimers :
                 /\ timers'[i].anim.id \in 1..Len(timingInfo)
                 /\ timers'[i].anim = timingInfo[timers'[i].anim.id]
                 /\ timers'[i].due = now + timers'[i].delay
           /\ CallStep("play") =>
                 \E t \in DelayValues : \A i \in NewTimers :
                     timers'[i].delay = t + (Mult * timers'[i].anim.start)
           /\ CallStep("frameApply") =>
                 \E d \in DelayValues : \A i \in NewTimers :
                     /\ timers'[i].delay >= Mult * d
                     /\ (Mult * timers'[i].anim.start) <= timers'[i].delay
                     /\ timers'[i].delay
                          < (Mult * (timers'[i].anim.start
                                       + timers'[i].anim.durn)) ]_vars

\* C20 witness: two operations of one call with different entries and
\* different delays have both fired, each with its own entry at its own
\* deadline.
C20_Witness ==
    /\ Len(timers) = 2
    /\ timers[1].batch = timers[2].batch
    /\ timers[1].anim # timers[2].anim
    /\ timers[1].delay # timers[2].delay
    /\ Len(invoked) = 2
    /\ \A k \in 1..2 :
          /\ invoked[k].anim = timers[invoked[k].op].anim
          /\ invoked[k].at = timers[invoked[k].op].due
    /\ invoked[1].op # invoked[2].op

====
